---- MODULE Spec2Model ----
(***************************************************************************)
(* Model of src/src/components/Appointments/AppointmentList.js: the React  *)
(* component AppointmentList, its state hooks, its two effects, its three  *)
(* handlers and its pure view functions, together with the store behind    *)
(* window.electronAPI.appointments.                                        *)
(*                                                                         *)
(* Time.  An instant is an integer number of time units; a calendar day    *)
(* has DayLen units.  A date-only string "YYYY-MM-DD" is parsed by         *)
(* new Date(..) as UTC midnight, a "YYYY-MM-DDTHH:mm" string as local      *)
(* time; date-fns' isToday compares local calendar days.  tz is the local  *)
(* offset from UTC in time units.                                          *)
(***************************************************************************)
EXTENDS Integers, Sequences, FiniteSets, TLC

VARIABLES
    electronAPI,            \* window.electronAPI is present (network-backed mode)
    store,                  \* the records held by the store behind electronAPI
    appointments,           \* useState([])    line 6
    filteredAppointments,   \* useState([])    line 7
    loading,                \* useState(true)  line 8
    filter,                 \* useState('all') line 9
    error,                  \* useState('')    line 10
    mounted,                \* the mount effect of lines 12-14 has run
    dirty,                  \* the effect of lines 16-18 is pending
    calls,                  \* one entry per handler invocation, in call order
    now,                    \* the current instant (Date.now())
    tz                      \* local time zone offset, in time units

vars == << electronAPI, store, appointments, filteredAppointments, loading,
           filter, error, mounted, dirty, calls, now, tz >>

----------------------------------------------------------------------------
(* Bounds *)

NumIds == 2
MaxCalls == 3
MaxDate == 3
DayLen == 2
MaxEdits == 1

Ids == 1..NumIds
Dates == 1..MaxDate
Times == 0..(DayLen - 1)
TzOffsets == {0 - 1, 0, 1}

Statuses == {"scheduled", "completed", "cancelled", "no-show"}
FilterKeys == {"all", "today", "upcoming", "past", "scheduled", "completed", "cancelled"}

ErrLoad == "Failed to load appointments. Please try again."
ErrStatus == "Failed to update appointment status."
ErrDelete == "Failed to delete appointment."

----------------------------------------------------------------------------
(* Records *)

Appt(i, d, t, s, n) ==
    [id |-> i, appointment_date |-> d, appointment_time |-> t, status |-> s, notes |-> n]

mockAppointments ==
    << Appt(1, 1, 0, "scheduled", 0), Appt(2, 2, DayLen - 1, "scheduled", 0) >>

\* The records a network-backed store starts with: later ids are dated earlier.
SeedRecord(i) ==
    Appt(i, IF i < MaxDate THEN MaxDate + 1 - i ELSE 1, i % DayLen, "scheduled", 0)

Range(s) == { s[k] : k \in DOMAIN s }

IdsOf(s) == { r.id : r \in Range(s) }

----------------------------------------------------------------------------
(* Dates: new Date(..) and date-fns *)

\* new Date('YYYY-MM-DD'): a date-only string is UTC midnight of that date.
ParseDateOnly(d) == d * DayLen

\* new Date('YYYY-MM-DDTHH:mm'): a date-time string without offset is local time.
ParseDateTime(d, t, z) == d * DayLen + t - z

\* The local calendar day an instant falls on (date-fns startOfDay).
LocalDay(x, z) == (x + z) \div DayLen

isToday(x, n, z) == LocalDay(x, z) = LocalDay(n, z)

isPast(x, n) == x < n

isFuture(x, n) == x > n

----------------------------------------------------------------------------
(* filterAppointments, lines 68-109 *)

\* FilterPredicate with a fault: a key outside the fixed set keeps nothing.
FilterPredicateStrict(apt, key, n, z) ==
    LET aptDate == ParseDateOnly(apt.appointment_date) IN
    CASE key = "today"     -> isToday(aptDate, n, z)
      [] key = "upcoming"  -> isFuture(aptDate, n) \/ isToday(aptDate, n, z)
      [] key = "past"      -> isPast(aptDate, n) /\ ~isToday(aptDate, n, z)
      [] key = "scheduled" -> apt.status = "scheduled"
      [] key = "completed" -> apt.status = "completed"
      [] key = "cancelled" -> apt.status = "cancelled"
      [] key = "all"       -> TRUE
      [] OTHER             -> FALSE

\* FilterPredicate with a fault: the key scheduled goes by the text shown, so a
\* past scheduled appointment (shown as Missed) is dropped.
FilterPredicateByText(apt, key, n, z) ==
    LET aptDate == ParseDateOnly(apt.appointment_date) IN
    CASE key = "today"     -> isToday(aptDate, n, z)
      [] key = "upcoming"  -> isFuture(aptDate, n) \/ isToday(aptDate, n, z)
      [] key = "past"      -> isPast(aptDate, n) /\ ~isToday(aptDate, n, z)
      [] key = "scheduled" -> /\ apt.status = "scheduled"
                              /\ ~(isPast(aptDate, n) /\ ~isToday(aptDate, n, z))
      [] key = "completed" -> apt.status = "completed"
      [] key = "cancelled" -> apt.status = "cancelled"
      [] OTHER             -> TRUE

\* The predicate of each case of the switch on filter (lines 72-99).
FilterPredicate(apt, key, n, z) ==
    LET aptDate == ParseDateOnly(apt.appointment_date) IN
    CASE key = "today"     -> isToday(aptDate, n, z)
      [] key = "upcoming"  -> isFuture(aptDate, n) \/ isToday(aptDate, n, z)
      [] key = "past"      -> isPast(aptDate, n) /\ ~isToday(aptDate, n, z)
      [] key = "scheduled" -> apt.status = "scheduled"
      [] key = "completed" -> apt.status = "completed"
      [] key = "cancelled" -> apt.status = "cancelled"
      [] OTHER             -> TRUE

\* Whether `filtered` is the appointments array itself (line 69, line 98) rather
\* than the new array Array.prototype.filter returns.
FilteredIsSource(key) ==
    key \notin {"today", "upcoming", "past", "scheduled", "completed", "cancelled"}

FilterBy(appts, key, n, z) ==
    LET Keep(apt) == FilterPredicate(apt, key, n, z) IN SelectSeq(appts, Keep)

\* CompareDateTime with a fault: only the dates are compared.
CompareDateOnly(a, b, z) ==
    ParseDateTime(a.appointment_date, 0, z) - ParseDateTime(b.appointment_date, 0, z)

\* The comparator of lines 102-106: dateA - dateB.
CompareDateTime(a, b, z) ==
    ParseDateTime(a.appointment_date, a.appointment_time, z)
        - ParseDateTime(b.appointment_date, b.appointment_time, z)

\* InsertSorted with a fault: x goes in front of the elements it compares equal to.
RECURSIVE InsertSortedBeforeEqual(_, _, _)
InsertSortedBeforeEqual(s, x, z) ==
    IF s = << >> THEN << x >>
    ELSE IF CompareDateTime(Head(s), x, z) >= 0 THEN << x >> \o s
    ELSE << Head(s) >> \o InsertSortedBeforeEqual(Tail(s), x, z)

\* x placed into the sorted sequence s behind every element that does not compare
\* greater than it (Array.prototype.sort is stable).
RECURSIVE InsertSorted(_, _, _)
InsertSorted(s, x, z) ==
    IF s = << >> THEN << x >>
    ELSE IF CompareDateTime(Head(s), x, z) > 0 THEN << x >> \o s
    ELSE << Head(s) >> \o InsertSorted(Tail(s), x, z)

RECURSIVE SortInto(_, _, _)
SortInto(acc, s, z) ==
    IF s = << >> THEN acc ELSE SortInto(InsertSorted(acc, Head(s), z), Tail(s), z)

\* filtered.sort(...) of lines 102-106.
SortByDateTime(s, z) == SortInto(<< >>, s, z)

\* The array handed to setFilteredAppointments (line 108).
FilterResult(appts, key, n, z) == SortByDateTime(FilterBy(appts, key, n, z), z)

\* The appointments array after filterAppointments ran: sort works in place, on
\* the appointments array itself when filtered is that array.
SourceAfterFilter(appts, key, n, z) ==
    IF FilteredIsSource(key) THEN SortByDateTime(appts, z) ELSE appts

----------------------------------------------------------------------------
(* Status badge and text, lines 153-173 *)

\* getStatusBadgeClass with a fault: the test for today comes first.
getStatusBadgeClassTodayFirst(status, appointmentDate, n, z) ==
    LET aptDate == ParseDateOnly(appointmentDate) IN
    IF isToday(aptDate, n, z) THEN "badge-info"
    ELSE IF status = "completed" THEN "badge-success"
    ELSE IF status = "cancelled" THEN "badge-danger"
    ELSE IF isPast(aptDate, n) /\ status = "scheduled" THEN "badge-warning"
    ELSE "badge-secondary"

getStatusBadgeClass(status, appointmentDate, n, z) ==
    LET aptDate == ParseDateOnly(appointmentDate) IN
    IF status = "completed" THEN "badge-success"
    ELSE IF status = "cancelled" THEN "badge-danger"
    ELSE IF isPast(aptDate, n) /\ ~isToday(aptDate, n, z) /\ status = "scheduled"
        THEN "badge-warning"
    ELSE IF isToday(aptDate, n, z) THEN "badge-info"
    ELSE "badge-secondary"

\* status.charAt(0).toUpperCase() + status.slice(1), line 172.
Capitalize(status) ==
    CASE status = "scheduled" -> "Scheduled"
      [] status = "completed" -> "Completed"
      [] status = "cancelled" -> "Cancelled"
      [] status = "no-show"   -> "No-show"
      [] OTHER                -> status

getStatusDisplayText(status, appointmentDate, n, z) ==
    LET aptDate == ParseDateOnly(appointmentDate) IN
    IF status = "scheduled" /\ isPast(aptDate, n) /\ ~isToday(aptDate, n, z)
        THEN "Missed"
    ELSE Capitalize(status)

\* One row of the table (lines 268-327): the select's value, class and the id the
\* row's handlers are bound to.
RenderRow(apt, n, z) ==
    [id |-> apt.id,
     value |-> apt.status,
     badge |-> getStatusBadgeClass(apt.status, apt.appointment_date, n, z),
     text |-> getStatusDisplayText(apt.status, apt.appointment_date, n, z)]


----------------------------------------------------------------------------
(* The store behind window.electronAPI.appointments *)

StoreIds == { r.id : r \in store }

StoreRecord(i) == CHOOSE r \in store : r.id = i

\* getAll(): the records, by ascending id.
RECURSIVE SeqById(_)
SeqById(S) ==
    IF S = {} THEN << >>
    ELSE LET r == CHOOSE x \in S : \A y \in S : x.id <= y.id
         IN << r >> \o SeqById(S \ {r})

\* update(id, patch): the fields the patch names replace the record's.
MergePatch(rec, patch) ==
    [f \in DOMAIN rec |-> IF f \in DOMAIN patch THEN patch[f] ELSE rec[f]]

StoreAfterUpdate(S, i, patch) ==
    { IF r.id = i THEN MergePatch(r, patch) ELSE r : r \in S }

StoreAfterDelete(S, i) == { r \in S : r.id # i }

----------------------------------------------------------------------------
(* Handler invocations *)

\* cause: the caller action; op: the store call the invocation is at; stage:
\*   "sent" the store call is in flight, "ok" / "err" the store answered and the
\*   answer is in flight, "done" / "failed" / "declined" the invocation ended.
Call(cause, op, id, answer, stage, payload, result) ==
    [cause |-> cause, op |-> op, id |-> id, answer |-> answer, stage |-> stage,
     payload |-> payload, result |-> result]

\* An ended invocation keeps what it was for and how it ended.
Ended(c, stage) == Call(c.cause, c.op, 0, c.answer, stage, << >>, << >>)

CallIds == DOMAIN calls

InFlight(c) == c.stage \in {"sent", "ok", "err"}

\* The rows are on screen only when the loading screen is not (lines 175-182).
RowIds == IF loading THEN {} ELSE IdsOf(filteredAppointments)

RowOf(i) == CHOOSE r \in Range(filteredAppointments) : r.id = i

\* UpdatePayload with a fault: the text shown for the status is what gets written.
UpdatePayloadDisplayText(appts, appointmentId, newStatus) ==
    IF appointmentId \in IdsOf(appts)
    THEN LET a == CHOOSE x \in Range(appts) : x.id = appointmentId
         IN [a EXCEPT !.status = getStatusDisplayText(newStatus, a.appointment_date, now, tz)]
    ELSE [status |-> newStatus]

\* { ...appointment, status: newStatus } with appointment = appointments.find(..),
\* lines 114-118; find yields undefined when no element has the id, and spreading
\* undefined adds no field.
UpdatePayload(appts, appointmentId, newStatus) ==
    IF appointmentId \in IdsOf(appts)
    THEN [(CHOOSE a \in Range(appts) : a.id = appointmentId) EXCEPT !.status = newStatus]
    ELSE [status |-> newStatus]

\* prev.map(apt => apt.id === appointmentId ? {...apt, status: newStatus} : apt)
MockStatusChange(prev, appointmentId, newStatus) ==
    [k \in DOMAIN prev |->
        IF prev[k].id = appointmentId THEN [prev[k] EXCEPT !.status = newStatus]
        ELSE prev[k]]

\* prev.filter(apt => apt.id !== appointmentId)
MockDelete(prev, appointmentId) ==
    LET Keep(apt) == apt.id # appointmentId IN SelectSeq(prev, Keep)

----------------------------------------------------------------------------
(* Initial state: the component constructed, no effect run yet *)

MainNow == MaxDate * DayLen

Init ==
    /\ electronAPI \in BOOLEAN
    /\ store = IF electronAPI THEN { SeedRecord(i) : i \in Ids } ELSE {}
    /\ appointments = << >>
    /\ filteredAppointments = << >>
    /\ loading = TRUE
    /\ filter = "all"
    /\ error = ""
    /\ mounted = FALSE
    /\ dirty = FALSE
    /\ calls = << >>
    /\ now = MainNow
    /\ tz = 0

----------------------------------------------------------------------------
(* Effects *)

\* The effects of the first commit (lines 12-18): loadAppointments() runs to its
\* await (or, without electronAPI, to its end); filterAppointments() then sees
\* the empty appointments of the first render and leaves the state as it is.
Mount ==
    /\ ~mounted
    /\ mounted' = TRUE
    /\ error' = ""
    /\ IF electronAPI
       THEN /\ loading' = TRUE
            /\ calls' = Append(calls, Call("mount", "getAll", 0, TRUE, "sent", << >>, << >>))
            /\ UNCHANGED << appointments, dirty >>
       ELSE /\ loading' = FALSE
            /\ appointments' = mockAppointments
            /\ dirty' = TRUE
            /\ calls' = Append(calls, Call("mount", "none", 0, TRUE, "done", << >>, << >>))
    /\ UNCHANGED << electronAPI, store, filteredAppointments, filter, now, tz >>

\* useEffect(filterAppointments, [filter, appointments]), lines 16-18 and 68-109.
FilterEffect ==
    /\ dirty
    /\ dirty' = FALSE
    /\ filteredAppointments' = FilterResult(appointments, filter, now, tz)
    /\ appointments' = SourceAfterFilter(appointments, filter, now, tz)
    /\ UNCHANGED << electronAPI, store, loading, filter, error, mounted, calls, now, tz >>

\* A filter button, lines 203-244.  React runs a pending effect before it renders
\* the next update, and setFilter reads no state: a click while the effect is
\* pending is the effect followed by the click.
SetFilter(k) ==
    /\ mounted
    /\ ~loading
    /\ ~dirty
    /\ filter' = k
    /\ dirty' = (k # filter)
    /\ UNCHANGED << electronAPI, store, appointments, filteredAppointments, loading,
                    error, mounted, calls, now, tz >>

----------------------------------------------------------------------------
(* loadAppointments with electronAPI, lines 20-27 and 60-65 *)

\* getAll resolved.  As for SetFilter, a pending effect runs before the render
\* that setAppointments asks for.
\* LoadResolved with a fault: the filter is not run again for the new collection.
LoadResolvedNoRefilter(k) ==
    /\ calls[k].op = "getAll"
    /\ calls[k].stage = "ok"
    /\ ~dirty
    /\ appointments' = calls[k].result
    /\ dirty' = dirty
    /\ loading' = FALSE
    /\ calls' = [calls EXCEPT ![k] = Ended(calls[k], "done")]
    /\ UNCHANGED << electronAPI, store, filteredAppointments, filter, error, mounted, now, tz >>

LoadResolved(k) ==
    /\ calls[k].op = "getAll"
    /\ calls[k].stage = "ok"
    /\ ~dirty
    /\ appointments' = calls[k].result
    /\ dirty' = TRUE
    /\ loading' = FALSE
    /\ calls' = [calls EXCEPT ![k] = Ended(calls[k], "done")]
    /\ UNCHANGED << electronAPI, store, filteredAppointments, filter, error, mounted, now, tz >>

\* LoadRejected with a fault: the loading flag is not cleared when getAll fails.
LoadRejectedKeepsLoading(k) ==
    /\ calls[k].op = "getAll"
    /\ calls[k].stage = "err"
    /\ error' = ErrLoad
    /\ loading' = loading
    /\ calls' = [calls EXCEPT ![k] = Ended(calls[k], "failed")]
    /\ UNCHANGED << electronAPI, store, appointments, filteredAppointments, filter,
                    mounted, dirty, now, tz >>

\* getAll rejected: the catch and finally of lines 60-65.
LoadRejected(k) ==
    /\ calls[k].op = "getAll"
    /\ calls[k].stage = "err"
    /\ error' = ErrLoad
    /\ loading' = FALSE
    /\ calls' = [calls EXCEPT ![k] = Ended(calls[k], "failed")]
    /\ UNCHANGED << electronAPI, store, appointments, filteredAppointments, filter,
                    mounted, dirty, now, tz >>

----------------------------------------------------------------------------
(* handleStatusChange, lines 111-134 *)

\* HandleStatusChange with a fault: with electronAPI the local collection is patched
\* at once, before the store answers.
HandleStatusChangeOptimistic(appointmentId, newStatus) ==
    /\ Len(calls) < MaxCalls
    /\ appointmentId \in RowIds
    /\ newStatus # RowOf(appointmentId).status
    /\ appointments' = MockStatusChange(appointments, appointmentId, newStatus)
    /\ dirty' = TRUE
    /\ IF electronAPI
       THEN calls' = Append(calls, Call("status", "update", appointmentId, TRUE, "sent",
                         << UpdatePayload(appointments, appointmentId, newStatus) >>, << >>))
       ELSE calls' = Append(calls, Call("status", "none", appointmentId, TRUE, "done",
                         << >>, << >>))
    /\ UNCHANGED << electronAPI, store, filteredAppointments, loading, filter, error,
                    mounted, now, tz >>

\* HandleStatusChange with a fault: only a scheduled appointment may change status.
HandleStatusChangeFromScheduled(appointmentId, newStatus) ==
    /\ Len(calls) < MaxCalls
    /\ appointmentId \in RowIds
    /\ newStatus # RowOf(appointmentId).status
    /\ RowOf(appointmentId).status = "scheduled"
    /\ IF electronAPI
       THEN /\ calls' = Append(calls, Call("status", "update", appointmentId, TRUE, "sent",
                         << UpdatePayload(appointments, appointmentId, newStatus) >>, << >>))
            /\ UNCHANGED << appointments, dirty >>
       ELSE /\ appointments' = MockStatusChange(appointments, appointmentId, newStatus)
            /\ dirty' = TRUE
            /\ calls' = Append(calls, Call("status", "none", appointmentId, TRUE, "done",
                         << >>, << >>))
    /\ UNCHANGED << electronAPI, store, filteredAppointments, loading, filter, error,
                    mounted, now, tz >>

HandleStatusChange(appointmentId, newStatus) ==
    /\ Len(calls) < MaxCalls
    /\ appointmentId \in RowIds
    /\ newStatus # RowOf(appointmentId).status
    /\ IF electronAPI
       THEN /\ calls' = Append(calls, Call("status", "update", appointmentId, TRUE, "sent",
                         << UpdatePayload(appointments, appointmentId, newStatus) >>, << >>))
            /\ UNCHANGED << appointments, dirty >>
       ELSE /\ appointments' = MockStatusChange(appointments, appointmentId, newStatus)
            /\ dirty' = TRUE
            /\ calls' = Append(calls, Call("status", "none", appointmentId, TRUE, "done",
                         << >>, << >>))
    /\ UNCHANGED << electronAPI, store, filteredAppointments, loading, filter, error,
                    mounted, now, tz >>

\* update resolved: await loadAppointments() (line 119) runs to its await.
StatusChangeAcked(k) ==
    /\ calls[k].op = "update"
    /\ calls[k].stage = "ok"
    /\ loading' = TRUE
    /\ error' = ""
    /\ calls' = [calls EXCEPT ![k].op = "getAll", ![k].stage = "sent", ![k].payload = << >>]
    /\ UNCHANGED << electronAPI, store, appointments, filteredAppointments, filter,
                    mounted, dirty, now, tz >>

\* StatusChangeFailed with a fault: the reload runs after the catch as well.
StatusChangeFailedReloads(k) ==
    /\ calls[k].op = "update"
    /\ calls[k].stage = "err"
    /\ error' = ErrStatus
    /\ loading' = TRUE
    /\ calls' = [calls EXCEPT ![k].op = "getAll", ![k].stage = "sent", ![k].payload = << >>]
    /\ UNCHANGED << electronAPI, store, appointments, filteredAppointments, filter,
                    mounted, dirty, now, tz >>

\* StatusChangeFailed with a fault: the update that failed is sent again.
StatusChangeFailedRetries(k) ==
    /\ calls[k].op = "update"
    /\ calls[k].stage = "err"
    /\ error' = ErrStatus
    /\ calls' = [calls EXCEPT ![k].stage = "sent"]
    /\ UNCHANGED << electronAPI, store, appointments, filteredAppointments, loading,
                    filter, mounted, dirty, now, tz >>

\* update rejected: the catch of lines 130-133.
StatusChangeFailed(k) ==
    /\ calls[k].op = "update"
    /\ calls[k].stage = "err"
    /\ error' = ErrStatus
    /\ calls' = [calls EXCEPT ![k] = Ended(calls[k], "failed")]
    /\ UNCHANGED << electronAPI, store, appointments, filteredAppointments, loading,
                    filter, mounted, dirty, now, tz >>

----------------------------------------------------------------------------
(* handleDeleteAppointment, lines 136-151 *)

\* HandleDeleteAppointment with a fault: the answer of window.confirm is not tested.
HandleDeleteAppointmentUnconfirmed(appointmentId, confirmed) ==
    /\ Len(calls) < MaxCalls
    /\ appointmentId \in RowIds
    /\ IF electronAPI
       THEN /\ calls' = Append(calls, Call("delete", "delete", appointmentId, confirmed, "sent",
                         << >>, << >>))
            /\ UNCHANGED << appointments, dirty >>
       ELSE /\ appointments' = MockDelete(appointments, appointmentId)
            /\ dirty' = TRUE
            /\ calls' = Append(calls, Call("delete", "none", appointmentId, confirmed, "done",
                         << >>, << >>))
    /\ UNCHANGED << electronAPI, store, filteredAppointments, loading, filter, error,
                    mounted, now, tz >>

\* confirmed is what window.confirm returned.
HandleDeleteAppointment(appointmentId, confirmed) ==
    /\ Len(calls) < MaxCalls
    /\ appointmentId \in RowIds
    /\ IF ~confirmed
       THEN /\ calls' = Append(calls, Call("delete", "none", appointmentId, confirmed, "declined",
                         << >>, << >>))
            /\ UNCHANGED << appointments, dirty >>
       ELSE IF electronAPI
       THEN /\ calls' = Append(calls, Call("delete", "delete", appointmentId, confirmed, "sent",
                         << >>, << >>))
            /\ UNCHANGED << appointments, dirty >>
       ELSE /\ appointments' = MockDelete(appointments, appointmentId)
            /\ dirty' = TRUE
            /\ calls' = Append(calls, Call("delete", "none", appointmentId, confirmed, "done",
                         << >>, << >>))
    /\ UNCHANGED << electronAPI, store, filteredAppointments, loading, filter, error,
                    mounted, now, tz >>

\* delete resolved: await loadAppointments() (line 141) runs to its await.
DeleteAcked(k) ==
    /\ calls[k].op = "delete"
    /\ calls[k].stage = "ok"
    /\ loading' = TRUE
    /\ error' = ""
    /\ calls' = [calls EXCEPT ![k].op = "getAll", ![k].stage = "sent"]
    /\ UNCHANGED << electronAPI, store, appointments, filteredAppointments, filter,
                    mounted, dirty, now, tz >>

\* delete rejected: the catch of lines 146-149.
DeleteFailed(k) ==
    /\ calls[k].op = "delete"
    /\ calls[k].stage = "err"
    /\ error' = ErrDelete
    /\ calls' = [calls EXCEPT ![k] = Ended(calls[k], "failed")]
    /\ UNCHANGED << electronAPI, store, appointments, filteredAppointments, loading,
                    filter, mounted, dirty, now, tz >>

----------------------------------------------------------------------------
(* The store serving the calls in flight, and edits made elsewhere *)

StoreGetAll(k) ==
    /\ calls[k].op = "getAll"
    /\ calls[k].stage = "sent"
    /\ calls' = [calls EXCEPT ![k].stage = "ok", ![k].result = SeqById(store)]
    /\ UNCHANGED << electronAPI, store, appointments, filteredAppointments, loading,
                    filter, error, mounted, dirty, now, tz >>

\* update(id, patch): NotFound when the store holds no record with the id.
StoreUpdate(k) ==
    /\ calls[k].op = "update"
    /\ calls[k].stage = "sent"
    /\ IF calls[k].id \in StoreIds
       THEN /\ store' = StoreAfterUpdate(store, calls[k].id, calls[k].payload[1])
            /\ calls' = [calls EXCEPT ![k].stage = "ok"]
       ELSE /\ store' = store
            /\ calls' = [calls EXCEPT ![k].stage = "err"]
    /\ UNCHANGED << electronAPI, appointments, filteredAppointments, loading, filter,
                    error, mounted, dirty, now, tz >>

\* delete(id): NotFound when the store holds no record with the id.
StoreDelete(k) ==
    /\ calls[k].op = "delete"
    /\ calls[k].stage = "sent"
    /\ IF calls[k].id \in StoreIds
       THEN /\ store' = StoreAfterDelete(store, calls[k].id)
            /\ calls' = [calls EXCEPT ![k].stage = "ok"]
       ELSE /\ store' = store
            /\ calls' = [calls EXCEPT ![k].stage = "err"]
    /\ UNCHANGED << electronAPI, appointments, filteredAppointments, loading, filter,
                    error, mounted, dirty, now, tz >>

\* StoreUnavailable: the call fails and the store is as it was.
StoreUnavailable(k) ==
    /\ calls[k].stage = "sent"
    /\ calls' = [calls EXCEPT ![k].stage = "err"]
    /\ UNCHANGED << electronAPI, store, appointments, filteredAppointments, loading,
                    filter, error, mounted, dirty, now, tz >>

\* Another client of the store edits a field other than status of a record.
ExternalEdit(i) ==
    /\ electronAPI
    /\ i \in StoreIds
    /\ Cardinality({ r \in store : r.notes # 0 }) < MaxEdits
    /\ StoreRecord(i).notes = 0
    /\ store' = StoreAfterUpdate(store, i, [notes |-> 1])
    /\ UNCHANGED << electronAPI, appointments, filteredAppointments, loading, filter,
                    error, mounted, dirty, calls, now, tz >>

----------------------------------------------------------------------------

Next ==
    \/ Mount
    \/ FilterEffect
    \/ \E k \in FilterKeys : SetFilter(k)
    \/ \E i \in Ids, s \in Statuses : HandleStatusChange(i, s)
    \/ \E i \in Ids, c \in BOOLEAN : HandleDeleteAppointment(i, c)
    \/ \E k \in CallIds : LoadResolved(k)
    \/ \E k \in CallIds : LoadRejected(k)
    \/ \E k \in CallIds : StatusChangeAcked(k)
    \/ \E k \in CallIds : StatusChangeFailed(k)
    \/ \E k \in CallIds : DeleteAcked(k)
    \/ \E k \in CallIds : DeleteFailed(k)
    \/ \E k \in CallIds : StoreGetAll(k)
    \/ \E k \in CallIds : StoreUpdate(k)
    \/ \E k \in CallIds : StoreDelete(k)
    \/ \E k \in CallIds : StoreUnavailable(k)
    \/ \E i \in Ids : ExternalEdit(i)

Spec == Init /\ [][Next]_vars


----------------------------------------------------------------------------
(* The view functions on their own: filterAppointments and the status badge   *)
(* and text applied to any collection a load can deliver, at any instant of   *)
(* a day and in any time zone.                                                *)

\* A key outside the seven of the filter buttons takes the default branch.
AnyKeys == FilterKeys \cup {"other"}

ViewRecords(i) == { Appt(i, d, t, s, 0) : d \in Dates, t \in Times, s \in Statuses }

\* The arrays of n records with distinct ids.
RECURSIVE Collections(_)
Collections(n) ==
    IF n = 0 THEN { << >> }
    ELSE { Append(c, r) : c \in Collections(n - 1), r \in UNION { ViewRecords(i) : i \in Ids } }

DistinctIds(c) == Cardinality(IdsOf(c)) = Len(c)

ViewNows == { (MaxDate - 1) * DayLen + h : h \in Times }

InitView ==
    /\ electronAPI = TRUE
    /\ store = {}
    /\ appointments \in { c \in UNION { Collections(n) : n \in 0..NumIds } : DistinctIds(c) }
    /\ filteredAppointments = << >>
    /\ loading = FALSE
    /\ filter \in FilterKeys
    /\ error = ""
    /\ mounted = TRUE
    /\ dirty = TRUE
    /\ calls = << >>
    /\ now \in ViewNows
    /\ tz \in TzOffsets

NextView ==
    \/ FilterEffect
    \/ \E k \in AnyKeys : SetFilter(k)

SpecView == InitView /\ [][NextView]_vars


----------------------------------------------------------------------------
(* Claims *)

\* The step starts a handler invocation: one entry more in calls.
Invoked == Len(calls') = Len(calls) + 1

\* C1: handleStatusChange called with an id that no record of the current
\* appointments has reports an error, sends no update to the store and leaves the
\* local collection and the store's records as they were.
C1_NotFoundReported ==
    [][ (/\ Invoked
         /\ calls'[Len(calls')].cause = "status"
         /\ calls'[Len(calls')].id \notin IdsOf(appointments))
        => (/\ error' # ""
            /\ calls'[Len(calls')].op # "update"
            /\ appointments' = appointments
            /\ store' = store) ]_vars

\* The store serves the update of invocation k in this step.
UpdateApplied(k) ==
    /\ calls[k].op = "update"
    /\ calls[k].stage = "sent"
    /\ calls'[k].stage = "ok"

\* C2: the record the store holds after an update of handleStatusChange differs
\* from the record it held immediately before only in status.
C2_OnlyStatusChanges ==
    [][ \A k \in DOMAIN calls :
          UpdateApplied(k) =>
            LET before == CHOOSE r \in store : r.id = calls[k].id
                after == CHOOSE r \in store' : r.id = calls[k].id
            IN \A f \in DOMAIN before \ {"status"} : after[f] = before[f] ]_vars

\* The store acknowledged a status change or delete of some invocation: the
\* invocation went on to its reload.
MutationAcked ==
    \E k \in DOMAIN calls : calls[k].cause \in {"status", "delete"} /\ calls[k].op = "getAll"

Quiescent == \A k \in DOMAIN calls : ~InFlight(calls[k])

NoCallFailed == \A k \in DOMAIN calls : calls[k].stage # "failed"

NoExternalEdit == \A r \in store : r.notes = 0

\* C3: with electronAPI, once the store acknowledged a status change or delete
\* and no store call is in flight, the appointments shown are the store's records,
\* whatever the order in which the reloads' answers arrived.  Stated for the runs
\* in which no store call failed and nobody else edited the store; the claim
\* extends it to a reload whose getAll fails.
C3_DisplayedEqualsStore ==
    (electronAPI /\ MutationAcked /\ Quiescent /\ NoCallFailed /\ NoExternalEdit)
        => Range(appointments) = store


\* The invocation k gets the store's answer to its update or delete in this step.
Answered(k) ==
    /\ calls[k].op \in {"update", "delete"}
    /\ calls[k].stage \in {"ok", "err"}
    /\ calls'[k] # calls[k]

\* The invocations whose getAll is in flight.
Reloading(cs) == { k \in DOMAIN cs : cs[k].op = "getAll" /\ cs[k].stage = "sent" }

\* C4: when the store's update call errors, handleStatusChange sets the error
\* message and nothing else: the local collection and the store's records are as
\* they were before the call, and no reload is issued.
C4_UpdateErrorLeavesState ==
    [][ /\ (Invoked /\ calls'[Len(calls')].op = "update")
            => (appointments' = appointments /\ store' = store)
        /\ \A k \in DOMAIN calls :
             /\ (calls[k].op = "update" /\ calls[k].stage = "sent" /\ calls'[k].stage = "err")
                  => (appointments' = appointments /\ store' = store)
             /\ (Answered(k) /\ calls[k].op = "update" /\ calls[k].stage = "err")
                  => (/\ error' = ErrStatus
                      /\ appointments' = appointments
                      /\ store' = store
                      /\ loading' = loading
                      /\ calls'[k].stage = "failed"
                      /\ Reloading(calls') = Reloading(calls)) ]_vars

\* An update was rejected and the message is on screen.
C4_Witness ==
    /\ error = ErrStatus
    /\ \E k \in DOMAIN calls :
         calls[k].cause = "status" /\ calls[k].op = "update" /\ calls[k].stage = "failed"

\* C5: with electronAPI, the reload of a status change or delete is issued in the
\* step that receives the store's acknowledgment of that mutation and in no other,
\* and the records of the local collection change only when a getAll answer is
\* taken: not when the mutation is issued, not when it is acknowledged.
C5_ReloadAfterAck ==
    [][ electronAPI =>
        /\ (Invoked /\ calls'[Len(calls')].cause \in {"status", "delete"})
             => (/\ appointments' = appointments
                 /\ calls'[Len(calls')].op # "getAll")
        /\ \A k \in DOMAIN calls :
             /\ (Answered(k) /\ calls[k].stage = "ok")
                  => (/\ calls'[k].op = "getAll"
                      /\ calls'[k].stage = "sent"
                      /\ appointments' = appointments)
             /\ (k \in Reloading(calls') \ Reloading(calls))
                  => (calls[k].op \in {"update", "delete"} /\ calls[k].stage = "ok")
        /\ (Range(appointments') # Range(appointments))
             => \E k \in DOMAIN calls :
                  /\ calls[k].op = "getAll"
                  /\ calls[k].stage = "ok"
                  /\ calls'[k].stage = "done"
                  /\ appointments' = calls[k].result ]_vars

\* The reloads of a status change and of a delete both ran to their end.
C5_Witness ==
    /\ \E k \in DOMAIN calls :
         calls[k].cause = "status" /\ calls[k].op = "getAll" /\ calls[k].stage = "done"
    /\ \E k \in DOMAIN calls :
         calls[k].cause = "delete" /\ calls[k].op = "getAll" /\ calls[k].stage = "done"

\* C8: a delete reaches the store, or removes a record of the local collection
\* without electronAPI, only in an invocation whose window.confirm returned true;
\* a declined confirmation leaves the store, the local collection and the error
\* message as they were.
C8_DeleteNeedsConfirm ==
    [][ /\ (Invoked /\ calls'[Len(calls')].cause = "delete" /\ ~calls'[Len(calls')].answer)
             => (/\ calls'[Len(calls')].stage = "declined"
                 /\ calls'[Len(calls')].op = "none"
                 /\ store' = store
                 /\ appointments' = appointments
                 /\ error' = error)
        /\ \A k \in DOMAIN calls' : calls'[k].op = "delete" => calls'[k].answer
        /\ (StoreIds' # StoreIds)
             => \E k \in DOMAIN calls :
                  /\ calls[k].op = "delete"
                  /\ calls[k].stage = "sent"
                  /\ calls[k].answer
                  /\ calls[k].id \in StoreIds
                  /\ StoreIds' = StoreIds \ {calls[k].id}
        /\ (~electronAPI /\ mounted /\ IdsOf(appointments') # IdsOf(appointments))
             => (/\ Invoked
                 /\ calls'[Len(calls')].cause = "delete"
                 /\ calls'[Len(calls')].answer
                 /\ IdsOf(appointments') = IdsOf(appointments) \ {calls'[Len(calls')].id}) ]_vars

\* One delete was declined, another confirmed and carried out by the store.
C8_Witness ==
    /\ \E k \in DOMAIN calls : calls[k].stage = "declined"
    /\ \E k \in DOMAIN calls :
         calls[k].cause = "delete" /\ calls[k].op = "getAll" /\ calls[k].answer
    /\ Cardinality(store) < NumIds

StatusesValid ==
    \A r \in store \cup Range(appointments) \cup Range(filteredAppointments) :
        r.status \in Statuses

\* C9: the stored status of every record is one of the four values of the select,
\* whatever was done and shown, and the status of a record changes only through a
\* status change requested for that record's id, to the status requested (the
\* text "Missed" is shown and never stored).
C9_StoredStatus ==
    /\ []StatusesValid
    /\ [][ /\ \A r \in store : \A q \in store' :
                (q.id = r.id /\ q.status # r.status)
                  => \E k \in DOMAIN calls :
                       /\ UpdateApplied(k)
                       /\ calls[k].cause = "status"
                       /\ calls[k].id = r.id
                       /\ q.status = calls[k].payload[1].status
           /\ ~electronAPI =>
                \A r \in Range(appointments) : \A q \in Range(appointments') :
                  (q.id = r.id /\ q.status # r.status)
                    => (/\ Invoked
                        /\ calls'[Len(calls')].cause = "status"
                        /\ calls'[Len(calls')].id = r.id) ]_vars

\* After a status change was stored and reloaded, a row shows "Missed" for a
\* record the store holds as scheduled.
C9_Witness ==
    /\ electronAPI
    /\ ~loading
    /\ \E k \in DOMAIN calls :
         calls[k].cause = "status" /\ calls[k].op = "getAll" /\ calls[k].stage = "done"
    /\ \E r \in Range(filteredAppointments) :
         /\ RenderRow(r, now, tz).text = "Missed"
         /\ RenderRow(r, now, tz).value = "scheduled"
         /\ \E q \in store : q.id = r.id /\ q.status = "scheduled"


\* The step runs filterAppointments.
Filtered == dirty /\ ~dirty'

\* C6: filterAppointments leaves the appointments collection with the same
\* elements in the same order, for every filter key.
C6_SourceOrderKept ==
    [][ Filtered => appointments' = appointments ]_vars

InstantOf(r, z) == ParseDateTime(r.appointment_date, r.appointment_time, z)

PositionIn(s, r) == CHOOSE k \in DOMAIN s : s[k] = r

Bucket(d, n, z) ==
    IF FilterPredicate([appointment_date |-> d], "today", n, z) THEN "Today"
    ELSE IF FilterPredicate([appointment_date |-> d], "past", n, z) THEN "Past"
    ELSE "Upcoming"

\* The five rules, first match wins.
EvaluateLabel(status, bucket) ==
    CASE status = "completed" -> "Completed"
      [] status = "cancelled" -> "Cancelled"
      [] status = "scheduled" /\ bucket = "Past" -> "Missed"
      [] status = "scheduled" -> "Scheduled"
      [] OTHER -> "No-show"

EvaluateBadge(status, bucket) ==
    CASE status = "completed" -> "badge-success"
      [] status = "cancelled" -> "badge-danger"
      [] status = "scheduled" /\ bucket = "Past" -> "badge-warning"
      [] bucket = "Today" -> "badge-info"
      [] OTHER -> "badge-secondary"

DatedToday(apt) == apt.appointment_date = LocalDay(now, tz)

\* C11: the result for the key upcoming holds every record of the result for the
\* key today, and an appointment dated on now's calendar date, whatever its
\* status, is in both results.
C11_TodayInBoth ==
    /\ Range(FilterBy(appointments, "today", now, tz))
         \subseteq Range(FilterBy(appointments, "upcoming", now, tz))
    /\ (~dirty /\ filter \in {"today", "upcoming"})
         => \A a \in Range(appointments) :
              DatedToday(a) => a \in Range(filteredAppointments)

\* C12: for the keys scheduled, completed and cancelled the result holds exactly
\* the appointments whose stored status is the key, whatever their date and the
\* text shown for them.
C12_StatusKeys ==
    (~dirty /\ filter \in {"scheduled", "completed", "cancelled"})
        => /\ Range(filteredAppointments) = { a \in Range(appointments) : a.status = filter }
           /\ Len(filteredAppointments)
                = Cardinality({ a \in Range(appointments) : a.status = filter })

\* The key scheduled keeps a past scheduled appointment, shown as Missed, and
\* drops a completed one.
C12_Witness ==
    /\ ~dirty
    /\ filter = "scheduled"
    /\ \E r \in Range(filteredAppointments) :
         /\ Bucket(r.appointment_date, now, tz) = "Past"
         /\ RenderRow(r, now, tz).text = "Missed"
    /\ \E a \in Range(appointments) :
         a.status = "completed" /\ a \notin Range(filteredAppointments)


\* The four Quick Stats cards (lines 335-361), each a count over appointments.
todayCount(appts, n, z) ==
    Cardinality({ k \in DOMAIN appts :
                    isToday(ParseDateOnly(appts[k].appointment_date), n, z) })

completedCount(appts) ==
    Cardinality({ k \in DOMAIN appts : appts[k].status = "completed" })

\* missedCount with a fault: the test that the date is not today is left out.
missedCountPastOnly(appts, n, z) ==
    Cardinality({ k \in DOMAIN appts :
                    /\ isPast(ParseDateOnly(appts[k].appointment_date), n)
                    /\ appts[k].status = "scheduled" })

missedCount(appts, n, z) ==
    Cardinality({ k \in DOMAIN appts :
                    /\ isPast(ParseDateOnly(appts[k].appointment_date), n)
                    /\ ~isToday(ParseDateOnly(appts[k].appointment_date), n, z)
                    /\ appts[k].status = "scheduled" })

upcomingCount(appts, n, z) ==
    Cardinality({ k \in DOMAIN appts :
                    /\ \/ isFuture(ParseDateOnly(appts[k].appointment_date), n)
                       \/ isToday(ParseDateOnly(appts[k].appointment_date), n, z)
                    /\ appts[k].status = "scheduled" })

\* The cards as rendered from the appointments state.
QuickStats ==
    [today     |-> todayCount(appointments, now, tz),
     completed |-> completedCount(appointments),
     missed    |-> missedCount(appointments, now, tz),
     upcoming  |-> upcomingCount(appointments, now, tz)]

\* C13: the Missed card counts the appointments that are in both the past and
\* the scheduled filter results; the cards are counted over the whole
\* collection, so choosing a filter key and running the filter leave them as
\* they were; all four are 0 for an empty collection.
C13_MissedStat ==
    /\ [](/\ QuickStats.missed
               = Cardinality(Range(FilterBy(appointments, "past", now, tz))
                               \cap Range(FilterBy(appointments, "scheduled", now, tz)))
          /\ (appointments = << >>)
               => QuickStats = [today |-> 0, completed |-> 0, missed |-> 0, upcoming |-> 0])
    /\ [][QuickStats' = QuickStats]_vars

\* A missed appointment is counted while the filter in force shows none, next to
\* a scheduled appointment of today that is not counted as missed.
C13_Witness ==
    /\ ~dirty
    /\ filter = "completed"
    /\ QuickStats.missed = 1
    /\ Len(appointments) = 2
    /\ filteredAppointments = << >>
    /\ \E a \in Range(appointments) :
         /\ a.status = "scheduled"
         /\ isPast(ParseDateOnly(a.appointment_date), now)
         /\ isToday(ParseDateOnly(a.appointment_date), now, tz)


\* C14: the sequence displayed is non-decreasing in the instant of date and
\* time, and sorting it again gives the same sequence.
C14_SortedAndIdempotent ==
    ~dirty =>
        /\ \A i, j \in DOMAIN filteredAppointments :
             i < j => InstantOf(filteredAppointments[i], tz)
                        <= InstantOf(filteredAppointments[j], tz)
        /\ SortByDateTime(filteredAppointments, tz) = filteredAppointments

\* The sort moved a later appointment of the same date behind an earlier one.
C14_Witness ==
    /\ ~dirty
    /\ Len(filteredAppointments) = 2
    /\ filteredAppointments # FilterBy(appointments, filter, now, tz)
    /\ filteredAppointments[1].appointment_date = filteredAppointments[2].appointment_date
    /\ filteredAppointments[1].appointment_time < filteredAppointments[2].appointment_time
    /\ filter = "today"


\* C15: the key all and any key outside the fixed set keep the whole collection,
\* and filtering a result again with its key gives the same records.
C15_IdentityAndIdempotent ==
    /\ \A k \in AnyKeys \ (FilterKeys \ {"all"}) :
         Range(FilterBy(appointments, k, now, tz)) = Range(appointments)
    /\ (~dirty /\ filter \notin (FilterKeys \ {"all"}))
         => Range(filteredAppointments) = Range(appointments)
    /\ \A k \in AnyKeys :
         Range(FilterBy(FilterBy(appointments, k, now, tz), k, now, tz))
           = Range(FilterBy(appointments, k, now, tz))
    /\ ~dirty
         => Range(FilterBy(filteredAppointments, filter, now, tz))
              = Range(filteredAppointments)

\* A key outside the fixed set is in force and every record is displayed.
C15_Witness ==
    /\ ~dirty
    /\ filter = "other"
    /\ Len(appointments) = 2
    /\ Range(filteredAppointments) = Range(appointments)
    /\ Range(FilterBy(appointments, "past", now, tz)) # Range(appointments)


\* What a status change of a record of the collection to newStatus comes to: with
\* electronAPI an update carrying newStatus is sent, without it the record of the
\* collection has newStatus; no error is raised.
StatusChangeAccepted(appointmentId, newStatus) ==
    /\ error' = error
    /\ IF electronAPI
       THEN /\ calls'[Len(calls')].op = "update"
            /\ calls'[Len(calls')].id = appointmentId
            /\ calls'[Len(calls')].payload[1].status = newStatus
       ELSE \A a \in Range(appointments') : a.id = appointmentId => a.status = newStatus

\* C16: every row offers every other status of the four, whatever its present
\* status; the handler accepts the change without an error, and once a working
\* store applied the update the record has the status asked for.
C16_AnyTransition ==
    /\ [](\A i \in RowIds : \A s \in Statuses \ {RowOf(i).status} :
            Len(calls) < MaxCalls => ENABLED HandleStatusChange(i, s))
    /\ [][ /\ \A i \in Ids : \A s \in Statuses :
                (HandleStatusChange(i, s) /\ i \in IdsOf(appointments))
                    => StatusChangeAccepted(i, s)
           /\ \A k \in DOMAIN calls :
                UpdateApplied(k) =>
                    \A r \in store' : r.id = calls[k].id
                                        => r.status = calls[k].payload[1].status ]_vars

\* The store applied a change from completed back to scheduled; the row still
\* shows completed until the reload.
C16_Witness ==
    \E k \in DOMAIN calls :
        /\ calls[k].op = "update"
        /\ calls[k].stage = "ok"
        /\ calls[k].payload[1].status = "scheduled"
        /\ StoreRecord(calls[k].id).status = "scheduled"
        /\ calls[k].id \in RowIds
        /\ RowOf(calls[k].id).status = "completed"


\* The message each failing store call leaves in error.
MessageFor(op) ==
    CASE op = "getAll" -> ErrLoad
      [] op = "update" -> ErrStatus
      [] op = "delete" -> ErrDelete

\* The component takes the error answer of the store call of invocation k.
FailureTaken(k) == calls[k].stage = "err" /\ calls'[k] # calls[k]

\* The store calls in flight, each with the operation called.
SentCalls(cs) == { << k, cs[k].op >> : k \in { j \in DOMAIN cs : cs[j].stage = "sent" } }

\* Some invocation ended in a failure.
SomeCallFailed == \E k \in DOMAIN calls : calls[k].stage = "failed"

\* C17: a failing store call leaves its message in error and ends its
\* invocation without any store call being sent again; every store call is sent
\* by a caller action (mount, status change, confirmed delete) or by the reload
\* that follows an acknowledged change; after a failure the component is off the
\* loading screen once nothing is in flight and its rows take further operations.
C17_FailuresRecoverable ==
    /\ [][ /\ \A k \in DOMAIN calls :
                FailureTaken(k) =>
                    /\ error' = MessageFor(calls[k].op)
                    /\ error' # ""
                    /\ calls'[k].stage = "failed"
                    /\ SentCalls(calls') = SentCalls(calls)
                    /\ store' = store
           /\ \A k \in DOMAIN calls :
                calls[k].stage = "failed" => calls'[k] = calls[k]
           /\ \A c \in SentCalls(calls') \ SentCalls(calls) :
                \/ /\ Invoked
                   /\ c[1] = Len(calls')
                   /\ calls'[c[1]].cause \in {"mount", "status", "delete"}
                   /\ calls'[c[1]].answer
                \/ /\ c[1] \in DOMAIN calls
                   /\ calls[c[1]].op \in {"update", "delete"}
                   /\ calls[c[1]].stage = "ok"
                   /\ c[2] = "getAll" ]_vars
    /\ []((SomeCallFailed /\ Quiescent /\ mounted) =>
            /\ ~loading
            /\ \A i \in RowIds :
                 Len(calls) < MaxCalls => ENABLED HandleDeleteAppointment(i, TRUE))

\* An update failed, its message is shown, and a later operation on a row has
\* its store call in flight.
C17_Witness ==
    \E k, j \in DOMAIN calls :
        /\ k < j
        /\ calls[k].op = "update"
        /\ calls[k].stage = "failed"
        /\ error = ErrStatus
        /\ calls[j].stage = "sent"
        /\ calls[j].cause = "delete"


C19_PastUpcomingPartition ==
    LET past     == Range(FilterBy(appointments, "past", now, tz))
        upcoming == Range(FilterBy(appointments, "upcoming", now, tz))
    IN /\ past \cap upcoming = {}
       /\ past \cup upcoming = Range(appointments)
       /\ (~dirty /\ filter = "past")
            => \A r \in Range(filteredAppointments) : ~DatedToday(r)

\* The loadAppointments calls that have started and not ended.
LoadsRunning(cs) == { k \in DOMAIN cs : cs[k].op = "getAll" /\ InFlight(cs[k]) }

\* C20: the loading flag is true for as long as a loadAppointments call runs,
\* and false once no such call runs.
C20_LoadingWhileLoadRuns ==
    /\ LoadsRunning(calls) # {} => loading
    /\ (mounted /\ LoadsRunning(calls) = {}) => ~loading

\* C20, as the code has it: each loadAppointments call sets the flag when it
\* starts and clears it when it ends, by success or by failure; the flag is true
\* only while some call runs and false once none runs.
C20_LoadingSetAndCleared ==
    /\ [][ /\ LoadsRunning(calls') \ LoadsRunning(calls) # {} => loading'
           /\ LoadsRunning(calls) \ LoadsRunning(calls') # {} => ~loading' ]_vars
    /\ []((mounted /\ LoadsRunning(calls) = {}) => ~loading)
    /\ [](loading => (~mounted \/ LoadsRunning(calls) # {}))

\* Two reloads ran next to each other after the first load; one failed, one
\* succeeded, nothing is left in flight and the rows are on screen.
C20_Witness ==
    /\ Quiescent
    /\ ~loading
    /\ \E k, j \in DOMAIN calls :
         /\ calls[k].cause = "status" /\ calls[k].op = "getAll" /\ calls[k].stage = "failed"
         /\ calls[j].cause = "delete" /\ calls[j].op = "getAll" /\ calls[j].stage = "done"


====
